---- MODULE Spec2Model ----
(***************************************************************************)
(* Netflix Dashboard 2023 (src/Netflix.py): a Streamlit script.  The        *)
(* script is executed top to bottom once when a session starts and once     *)
(* more, from line 1, every time the user changes a sidebar widget.  One    *)
(* action models one block of the script; pc is the block to run next.      *)
(*                                                                          *)
(* Hours are modelled as naturals (float rounding is not modelled); the     *)
(* missing value of a numeric column is NaN, of a text column NA.           *)
(***************************************************************************)
EXTENDS Integers, Sequences, FiniteSets, TLC

VARIABLES
    file,                       \* content of netflix_content_2023.csv
    pc,                         \* block of the script to run next
    rerun,                      \* FALSE during the first run of the session
    error,                      \* exception that stopped the current run
    netflix_data,               \* the base table (line 8, lines 11-14)
    content_type,               \* sidebar selectbox value (line 38)
    month_range,                \* sidebar slider value (line 39)
    languages,                  \* sidebar multiselect value (line 40)
    filtered_data,              \* lines 43-48
    total_hours,                \* line 52
    unique_titles,              \* line 53
    most_viewed_type,           \* line 54
    monthly_viewership,         \* line 73
    language_viewership,        \* line 88
    weekday_releases,           \* line 103
    weekday_viewership,         \* line 106
    monthly_viewership_by_type, \* line 147
    top_content,                \* line 176
    content_distribution        \* line 182

widgets == <<content_type, month_range, languages>>
summary == <<total_hours, unique_titles, most_viewed_type>>
views   == <<monthly_viewership, language_viewership, weekday_releases,
             weekday_viewership, monthly_viewership_by_type, top_content,
             content_distribution>>
vars    == <<file, pc, rerun, error, netflix_data, widgets, filtered_data,
             summary, views>>

-----------------------------------------------------------------------------
(* Bounds of the model *)

\* rows of a short input file; period of a long one
MaxRows == 2
\* a long input file has TopN .. TopN + MaxExtra rows
MaxExtra == 1

-----------------------------------------------------------------------------
(* Values *)

\* missing value of a numeric column (float NaN); every parsed number is >= 0
NaN == 0 - 1
\* missing value of a text column
NA == "NaN"
\* Python None: the selectbox value when it has no option
None == "None"
\* a script variable that no line of the current run has assigned yet
Unset == "unset"
\* the text read_csv leaves in an object column for an empty cell
NaNCell == <<"NaN">>
\* Release Date of a row whose cell did not parse (errors='coerce')
NaT == [m |-> NaN, d |-> NaN]

SliderMin == 1
SliderMax == 12
TopN == 10

WeekDays == <<"Monday", "Tuesday", "Wednesday", "Thursday", "Friday",
              "Saturday", "Sunday">>

DigitChars == {"0", "1", "2", "3", "4", "5", "6", "7", "8", "9"}

DigitVal(c) ==
    CASE c = "0" -> 0 [] c = "1" -> 1 [] c = "2" -> 2 [] c = "3" -> 3
      [] c = "4" -> 4 [] c = "5" -> 5 [] c = "6" -> 6 [] c = "7" -> 7
      [] c = "8" -> 8 [] c = "9" -> 9

-----------------------------------------------------------------------------
(* The input file.  A Release Date cell is well-formed text "2023-mm-dd"    *)
(* (wf, with the numbers it holds, which need not be a calendar date) or    *)
(* text that is no date at all.  An Hours Viewed cell is its characters.    *)

DateText(m, d) == [wf |-> TRUE, m |-> m, d |-> d]
NoDateText == [wf |-> FALSE, m |-> 0, d |-> 0]

CsvRow(t, ct, rd, hv, li) ==
    [Title |-> t, ContentType |-> ct, ReleaseDate |-> rd, HoursViewed |-> hv,
     LanguageIndicator |-> li]

RawRows ==
    { CsvRow("A", "Movie", DateText(3, 5),   <<"1", ",", "0">>, "English"),
      CsvRow("B", "Movie", DateText(12, 31), <<"7">>,           "Spanish"),
      CsvRow("A", "Show",  DateText(3, 9),   <<"7">>,           "English"),
      CsvRow("B", "",      DateText(3, 9),   <<"1", ",", "0">>, ""),
      CsvRow("A", "Movie", NoDateText,       <<"7">>,           "English"),
      CsvRow("B", "Show",  DateText(2, 30),  <<>>,              "Spanish"),
      CsvRow("B", "Movie", DateText(3, 9),   <<>>,              ""),
      CsvRow("A", "Show",  DateText(12, 31), <<"3", "x">>,      "English") }

\* rows a long file repeats: one content type, tied, distinct and missing hours
LongRows ==
    { CsvRow("A", "Movie", DateText(3, 5),   <<"1", ",", "0">>, "English"),
      CsvRow("B", "Movie", DateText(12, 31), <<"7">>,           "Spanish"),
      CsvRow("B", "Movie", DateText(3, 9),   <<>>,              "") }

SeqsUpTo(S, n) == UNION {[1..k -> S] : k \in 0..n}

Cycle(base, n) == [i \in 1..n |-> base[((i - 1) % Len(base)) + 1]]

Files ==
    SeqsUpTo(RawRows, MaxRows)
    \cup { Cycle(b, TopN + k) : b \in SeqsUpTo(LongRows, MaxRows) \ {<<>>},
                                k \in 0..MaxExtra }

-----------------------------------------------------------------------------
(* pandas, as far as the script uses it *)

RECURSIVE SumSeq(_)
\* Series.sum(): missing values are skipped, the sum of nothing is 0
SumSeq(s) ==
    IF s = <<>> THEN 0
    ELSE (IF Head(s) = NaN THEN 0 ELSE Head(s)) + SumSeq(Tail(s))

Column(df, col) == [i \in DOMAIN df |-> df[i][col]]

\* pd.read_csv: one record per line, RangeIndex from 0, empty cells missing
ReadCsv(f) ==
    [i \in DOMAIN f |->
        [idx |-> i - 1,
         Title |-> f[i].Title,
         ContentType |-> IF f[i].ContentType = "" THEN NA ELSE f[i].ContentType,
         ReleaseDate |-> f[i].ReleaseDate,
         HoursViewed |-> IF f[i].HoursViewed = <<>> THEN NaNCell
                         ELSE f[i].HoursViewed,
         LanguageIndicator |-> IF f[i].LanguageIndicator = "" THEN NA
                               ELSE f[i].LanguageIndicator]]

\* StripCommas dropping every character that is no digit
StripCommas_DigitsOnly(s) == SelectSeq(s, LAMBDA c : c \in DigitChars)

\* .replace(',', '', regex=True) on one cell
StripCommas(s) == SelectSeq(s, LAMBDA c : c # ",")

\* does float(s) succeed
CanFloat(s) ==
    \/ s = NaNCell
    \/ s # <<>> /\ \A i \in DOMAIN s : s[i] \in DigitChars

RECURSIVE DecimalValue(_)
DecimalValue(s) ==
    IF s = <<>> THEN 0
    ELSE 10 * DecimalValue(SubSeq(s, 1, Len(s) - 1)) + DigitVal(s[Len(s)])

\* float(s), for s that CanFloat
ToFloat(s) == IF s = NaNCell THEN NaN ELSE DecimalValue(s)

DaysInMonth == <<31, 28, 31, 30, 31, 30, 31, 31, 30, 31, 30, 31>>

\* ToDatetime taking the numbers of the text without checking the calendar
ToDatetime_Unchecked(c) ==
    IF c.wf THEN [m |-> c.m, d |-> c.d] ELSE NaT

\* pd.to_datetime(cell, errors='coerce')
ToDatetime(c) ==
    IF c.wf /\ c.m \in 1..12 /\ c.d >= 1 /\ c.d <= DaysInMonth[c.m]
    THEN [m |-> c.m, d |-> c.d]
    ELSE NaT

RECURSIVE DaysBefore(_)
DaysBefore(m) == IF m = 1 THEN 0 ELSE DaysBefore(m - 1) + DaysInMonth[m - 1]

\* .dt.month
Month(dt) == IF dt = NaT THEN NaN ELSE dt.m

\* .dt.day_name(); 1 January 2023 was a Sunday
DayName(dt) ==
    IF dt = NaT THEN NA
    ELSE WeekDays[((DaysBefore(dt.m) + dt.d - 1 + 6) % 7) + 1]

\* lines 11-14 applied to the table read by line 8
Preprocess(df) ==
    [i \in DOMAIN df |->
        [idx |-> df[i].idx,
         Title |-> df[i].Title,
         ContentType |-> df[i].ContentType,
         ReleaseDate |-> ToDatetime(df[i].ReleaseDate),
         HoursViewed |-> ToFloat(StripCommas(df[i].HoursViewed)),
         LanguageIndicator |-> df[i].LanguageIndicator,
         ReleaseMonth |-> Month(ToDatetime(df[i].ReleaseDate)),
         ReleaseDay |-> DayName(ToDatetime(df[i].ReleaseDate))]]

\* line 11 raises ValueError unless every cell converts
HoursConvert(df) ==
    \A i \in DOMAIN df : CanFloat(StripCommas(df[i].HoursViewed))


\* dropna().unique(): the values present, in order of first appearance
RECURSIVE Unique(_)
Unique(s) ==
    IF s = <<>> THEN <<>>
    ELSE LET u == Unique(SubSeq(s, 1, Len(s) - 1))
             x == s[Len(s)]
         IN IF x = NA \/ \E i \in DOMAIN u : u[i] = x THEN u ELSE Append(u, x)

Range(s) == {s[i] : i \in DOMAIN s}

\* Series == value: a missing cell equals nothing, nothing equals None
SeriesEq(x, v) == x # NA /\ v # None /\ x = v

\* Between leaving out the upper end
Between_Exclusive(x, lo, hi) == x # NaN /\ lo <= x /\ x < hi

\* Between letting a missing value pass
Between_MissingPasses(x, lo, hi) == x = NaN \/ (lo <= x /\ x <= hi)

\* Series.between(lo, hi): inclusive at both ends, False on a missing value
Between(x, lo, hi) == x # NaN /\ lo <= x /\ x <= hi

\* ApplyFilter without the test of the content type
ApplyFilter_AnyType(df, ct, mr, langs) ==
    LET byMonth ==
            SelectSeq(df, LAMBDA r : r.ReleaseMonth # NaN
                                     /\ mr[1] <= r.ReleaseMonth
                                     /\ r.ReleaseMonth <= mr[2])
    IN IF langs # {}
       THEN SelectSeq(byMonth, LAMBDA r : r.LanguageIndicator \in langs)
       ELSE byMonth

\* lines 43-48
ApplyFilter(df, ct, mr, langs) ==
    LET byTypeAndMonth ==
            SelectSeq(df, LAMBDA r : SeriesEq(r.ContentType, ct)
                                     /\ Between(r.ReleaseMonth, mr[1], mr[2]))
    IN IF langs # {}
       THEN SelectSeq(byTypeAndMonth, LAMBDA r : r.LanguageIndicator \in langs)
       ELSE byTypeAndMonth

\* the group keys of groupby(key): rows with a missing key are dropped
GroupKeys(df, key, null) ==
    {df[i][key] : i \in {j \in DOMAIN df : df[j][key] # null}}

\* df.groupby(key)['Hours Viewed'].sum(), as a function of the group key
GroupBySum(df, key, null) ==
    [k \in GroupKeys(df, key, null) |->
        SumSeq(Column(SelectSeq(df, LAMBDA r : r[key] = k), "HoursViewed"))]

\* ValueCounts counting the missing value as a value (dropna=False)
ValueCounts_KeepMissing(df, key, null) ==
    [k \in {df[i][key] : i \in DOMAIN df} |->
        Cardinality({i \in DOMAIN df : df[i][key] = k})]

\* df[key].value_counts(), as a function of the value
ValueCounts(df, key, null) ==
    [k \in GroupKeys(df, key, null) |->
        Cardinality({i \in DOMAIN df : df[i][key] = k})]

\* Series.reindex(labels): a label the series lacks gets a missing value
Reindex(s, labels) ==
    [l \in Range(labels) |-> IF l \in DOMAIN s THEN s[l] ELSE NaN]

\* the order groupby puts text keys in
TextOrder == <<"English", "Movie", "Show", "Spanish">>
TextRank(x) == CHOOSE i \in DOMAIN TextOrder : TextOrder[i] = x

\* Series.idxmax() of a non-empty groupby result: the first key, in key
\* order, that has the largest value
IdxMax(s) ==
    CHOOSE k \in DOMAIN s :
        /\ \A j \in DOMAIN s : s[j] <= s[k]
        /\ \A j \in DOMAIN s : s[j] = s[k] => TextRank(k) <= TextRank(j)

\* Series.nunique(): missing values are not counted
NUnique(s) == Cardinality(Range(s) \ {NA})

\* pivot_table(index='Release Month', columns='Content Type',
\*             values='Hours Viewed', aggfunc='sum')
PivotTable(df) ==
    LET kept   == SelectSeq(df, LAMBDA r : r.ReleaseMonth # NaN
                                           /\ r.ContentType # NA)
        months == {kept[i].ReleaseMonth : i \in DOMAIN kept}
        types  == {kept[i].ContentType : i \in DOMAIN kept}
        cell(m, t) == SelectSeq(kept, LAMBDA r : r.ReleaseMonth = m
                                                 /\ r.ContentType = t)
    IN [m \in months |->
         [t \in types |->
            IF cell(m, t) = <<>> THEN NaN
            ELSE SumSeq(Column(cell(m, t), "HoursViewed"))]]

Reverse(s) == [i \in 1..Len(s) |-> s[Len(s) + 1 - i]]

RECURSIVE InsertByHours(_, _)
\* x goes behind every row whose hours are not larger
InsertByHours(x, s) ==
    IF s = <<>> THEN <<x>>
    ELSE IF s[Len(s)].HoursViewed <= x.HoursViewed THEN Append(s, x)
    ELSE Append(InsertByHours(x, SubSeq(s, 1, Len(s) - 1)), s[Len(s)])

RECURSIVE SortAscending(_)
\* ascending by hours, rows with equal hours in the order given
SortAscending(s) ==
    IF s = <<>> THEN <<>>
    ELSE InsertByHours(s[Len(s)], SortAscending(SubSeq(s, 1, Len(s) - 1)))

\* argsort(kind='quicksort'): ascending, but the order of rows with equal
\* hours depends on the numpy build; keepTies picks the outcome
ArgSort(s, keepTies) ==
    IF keepTies THEN SortAscending(s) ELSE SortAscending(Reverse(s))

\* SortValuesDescending without ascending=False
SortValuesDescending_Ascending(df, keepTies) ==
    LET present == SelectSeq(df, LAMBDA r : r.HoursViewed # NaN)
        missing == SelectSeq(df, LAMBDA r : r.HoursViewed = NaN)
    IN ArgSort(present, keepTies) \o missing

\* sort_values(by='Hours Viewed', ascending=False): the rows with hours are
\* reversed, sorted ascending and reversed again; rows without go last
SortValuesDescending(df, keepTies) ==
    LET present == SelectSeq(df, LAMBDA r : r.HoursViewed # NaN)
        missing == SelectSeq(df, LAMBDA r : r.HoursViewed = NaN)
    IN Reverse(ArgSort(Reverse(present), keepTies)) \o missing

\* .head(n)
HeadRows(df, n) == SubSeq(df, 1, IF Len(df) < n THEN Len(df) ELSE n)

\* filtered_data[['Title', 'Hours Viewed']]
TitleAndHours(df) ==
    [i \in DOMAIN df |->
        [idx |-> df[i].idx, Title |-> df[i].Title,
         HoursViewed |-> df[i].HoursViewed]]

\* line 176
TopContent(df, keepTies) ==
    HeadRows(SortValuesDescending(TitleAndHours(df), keepTies), TopN)

-----------------------------------------------------------------------------
(* The sidebar *)

TypeOptions(df) == Unique(Column(df, "ContentType"))
LanguageOptions(df) == Unique(Column(df, "LanguageIndicator"))

\* the slider positions the model tries: both ends and month 3
SliderStops == {SliderMin, 3, SliderMax}
MonthRanges ==
    {r \in SliderStops \X SliderStops : r[1] <= r[2]}

-----------------------------------------------------------------------------
(* The script *)

Init ==
    /\ file \in Files
    /\ pc = "load"
    /\ rerun = FALSE
    /\ error = "none"
    /\ netflix_data = Unset
    /\ content_type = Unset
    /\ month_range = Unset
    /\ languages = Unset
    /\ filtered_data = Unset
    /\ total_hours = Unset
    /\ unique_titles = Unset
    /\ most_viewed_type = Unset
    /\ monthly_viewership = Unset
    /\ language_viewership = Unset
    /\ weekday_releases = Unset
    /\ weekday_viewership = Unset
    /\ monthly_viewership_by_type = Unset
    /\ top_content = Unset
    /\ content_distribution = Unset

\* lines 7-8
Load ==
    /\ pc = "load"
    /\ netflix_data' = ReadCsv(file)
    /\ pc' = "preprocess"
    /\ UNCHANGED <<file, rerun, error, widgets, filtered_data, summary, views>>

\* lines 11-14; astype(float) raises before line 11 assigns
PreprocessData ==
    /\ pc = "preprocess"
    /\ IF HoursConvert(netflix_data)
       THEN /\ netflix_data' = Preprocess(netflix_data)
            /\ pc' = "sidebar"
            /\ error' = error
       ELSE /\ netflix_data' = netflix_data
            /\ pc' = "failed"
            /\ error' = "ValueError: could not convert string to float"
    /\ UNCHANGED <<file, rerun, widgets, filtered_data, summary, views>>

\* lines 38-40: a widget returns its default in the first run and the value
\* the session holds for it afterwards
Sidebar ==
    /\ pc = "sidebar"
    /\ IF rerun
       THEN UNCHANGED widgets
       ELSE /\ content_type' = IF TypeOptions(netflix_data) = <<>> THEN None
                               ELSE TypeOptions(netflix_data)[1]
            /\ month_range' = <<SliderMin, SliderMax>>
            /\ languages' = {}
    /\ pc' = "filter"
    /\ UNCHANGED <<file, rerun, error, netflix_data, filtered_data, summary,
                   views>>

\* ApplyFilters assigning the filtered rows to the base table as well
ApplyFilters_InPlace ==
    /\ pc = "filter"
    /\ filtered_data' =
           ApplyFilter(netflix_data, content_type, month_range, languages)
    /\ netflix_data' = filtered_data'
    /\ pc' = "summary"
    /\ UNCHANGED <<file, rerun, error, widgets, summary, views>>

\* lines 43-48
ApplyFilters ==
    /\ pc = "filter"
    /\ filtered_data' =
           ApplyFilter(netflix_data, content_type, month_range, languages)
    /\ pc' = "summary"
    /\ UNCHANGED <<file, rerun, error, netflix_data, widgets, summary, views>>

\* lines 52-62; idxmax of an empty series raises ValueError
SummaryMetrics ==
    /\ pc = "summary"
    /\ total_hours' = SumSeq(Column(filtered_data, "HoursViewed"))
    /\ unique_titles' = NUnique(Column(filtered_data, "Title"))
    /\ IF GroupKeys(filtered_data, "ContentType", NA) # {}
       THEN /\ most_viewed_type' =
                   IdxMax(GroupBySum(filtered_data, "ContentType", NA))
            /\ pc' = "tabs"
            /\ error' = error
       ELSE /\ most_viewed_type' = most_viewed_type
            /\ pc' = "failed"
            /\ error' = "ValueError: attempt to get argmax of an empty sequence"
    /\ UNCHANGED <<file, rerun, netflix_data, widgets, filtered_data, views>>

\* lines 65-189: the six tabs, straight-line code
Tabs ==
    /\ pc = "tabs"
    /\ monthly_viewership' = GroupBySum(filtered_data, "ReleaseMonth", NaN)
    /\ language_viewership' =
           GroupBySum(filtered_data, "LanguageIndicator", NA)
    /\ weekday_releases' =
           Reindex(ValueCounts(netflix_data, "ReleaseDay", NA), WeekDays)
    /\ weekday_viewership' =
           Reindex(GroupBySum(netflix_data, "ReleaseDay", NA), WeekDays)
    /\ monthly_viewership_by_type' = PivotTable(netflix_data)
    /\ \E keepTies \in BOOLEAN :
           top_content' = TopContent(filtered_data, keepTies)
    /\ content_distribution' = ValueCounts(netflix_data, "ContentType", NA)
    /\ pc' = "done"
    /\ UNCHANGED <<file, rerun, error, netflix_data, widgets, filtered_data,
                   summary>>

\* the sidebar is on screen once line 40 has run
SidebarShown ==
    \/ pc = "done"
    \/ pc = "failed" /\ content_type # Unset

\* a widget change makes Streamlit run the script again from line 1, with
\* no variable of the previous run left
Restart ==
    /\ pc' = "load"
    /\ rerun' = TRUE
    /\ error' = "none"
    /\ netflix_data' = Unset
    /\ filtered_data' = Unset
    /\ total_hours' = Unset
    /\ unique_titles' = Unset
    /\ most_viewed_type' = Unset
    /\ monthly_viewership' = Unset
    /\ language_viewership' = Unset
    /\ weekday_releases' = Unset
    /\ weekday_viewership' = Unset
    /\ monthly_viewership_by_type' = Unset
    /\ top_content' = Unset
    /\ content_distribution' = Unset
    /\ file' = file

\* the user picks another content type in the selectbox of line 38
SelectContentType ==
    /\ SidebarShown
    /\ \E t \in Range(TypeOptions(netflix_data)) \ {content_type} :
           content_type' = t
    /\ UNCHANGED <<month_range, languages>>
    /\ Restart

\* the user moves the slider of line 39
SelectMonthRange ==
    /\ SidebarShown
    /\ \E r \in MonthRanges \ {month_range} : month_range' = r
    /\ UNCHANGED <<content_type, languages>>
    /\ Restart

\* the user changes the multiselect of line 40
SelectLanguages ==
    /\ SidebarShown
    /\ \E ls \in (SUBSET Range(LanguageOptions(netflix_data))) \ {languages} :
           languages' = ls
    /\ UNCHANGED <<content_type, month_range>>
    /\ Restart

Next ==
    \/ Load
    \/ PreprocessData
    \/ Sidebar
    \/ ApplyFilters
    \/ SummaryMetrics
    \/ Tabs
    \/ SelectContentType
    \/ SelectMonthRange
    \/ SelectLanguages

Spec == Init /\ [][Next]_vars

-----------------------------------------------------------------------------
(* Where a run stands *)

\* the character of a digit
DigitChars_Of(n) == CHOOSE c \in DigitChars : DigitVal(c) = n

\* no Hours Viewed cell of the input files is a longer numeral than this
HoursLimit == 999


FloatError == "ValueError: could not convert string to float"
ArgmaxError == "ValueError: attempt to get argmax of an empty sequence"

\* lines 11-14 have run in the current run
Preprocessed ==
    pc \in {"sidebar", "filter", "summary", "tabs", "done"}
    \/ error = ArgmaxError

\* lines 43-48 have run in the current run
Filtered == pc \in {"summary", "tabs", "done"} \/ error = ArgmaxError

\* lines 52-54 have run, or were stopped, in the current run
Summarised == pc \in {"tabs", "done"} \/ error = ArgmaxError

RECURSIVE SumOver(_, _)
\* sum of the values f has on S, missing values skipped
SumOver(f, S) ==
    IF S = {} THEN 0
    ELSE LET k == CHOOSE x \in S : TRUE
         IN (IF f[k] = NaN THEN 0 ELSE f[k]) + SumOver(f, S \ {k})

-----------------------------------------------------------------------------
(* C1 *)

\* row r of the table is one the selection asks for
Selected(r) ==
    /\ r.ContentType = content_type
    /\ r.ReleaseMonth \in month_range[1]..month_range[2]
    /\ (languages = {} \/ r.LanguageIndicator \in languages)

\* C1: the filtered set is exactly the rows of the table with the selected
\* content type, a release month inside the selected range and, when
\* languages are selected, one of those languages, in the order of the
\* table; it is empty when no row qualifies.
C1_FilterExact ==
    Filtered =>
        /\ {filtered_data[k].idx : k \in DOMAIN filtered_data}
             = {netflix_data[i].idx :
                    i \in {j \in DOMAIN netflix_data : Selected(netflix_data[j])}}
        /\ \A k \in DOMAIN filtered_data :
               filtered_data[k] = netflix_data[filtered_data[k].idx + 1]
        /\ \A k \in 1..(Len(filtered_data) - 1) :
               filtered_data[k].idx < filtered_data[k + 1].idx

C1_Witness ==
    /\ Filtered
    /\ languages # {}
    /\ Len(filtered_data) >= 1
    /\ \E i \in DOMAIN netflix_data :
           /\ netflix_data[i].ContentType = content_type
           /\ netflix_data[i].ReleaseMonth \in month_range[1]..month_range[2]
           /\ netflix_data[i].LanguageIndicator \notin languages
    /\ month_range # <<SliderMin, SliderMax>>

-----------------------------------------------------------------------------
(* C2 *)

\* C2: when the filtered set is empty the summary metrics are computed
\* without error (total 0, no unique title, most viewed type undefined) and
\* the run goes on to the tabs.
C2_EmptySummary ==
    (Summarised /\ filtered_data = <<>>) =>
        /\ error = "none"
        /\ total_hours = 0
        /\ unique_titles = 0
        /\ most_viewed_type \in {Unset, None}

-----------------------------------------------------------------------------
(* C3 *)

RECURSIVE Numeral(_)
\* the decimal numeral of a natural number
Numeral(n) ==
    IF n < 10 THEN <<DigitChars_Of(n)>>
    ELSE Numeral(n \div 10) \o <<DigitChars_Of(n % 10)>>

RECURSIVE WithoutCommas(_)
WithoutCommas(t) ==
    IF t = <<>> THEN <<>>
    ELSE IF Head(t) = "," THEN WithoutCommas(Tail(t))
    ELSE <<Head(t)>> \o WithoutCommas(Tail(t))

\* C3: every Hours Viewed cell is parsed from its text with the commas
\* removed; a cell that is then still no number makes lines 11-14 fail with
\* an error and no table with a number for that cell exists.
C3_HoursParsedOrRejected ==
    pc \notin {"load", "preprocess"} =>
        IF error = FloatError
        THEN /\ pc = "failed"
             /\ \E i \in DOMAIN file :
                    /\ file[i].HoursViewed # <<>>
                    /\ \A n \in 0..HoursLimit :
                           Numeral(n) # WithoutCommas(file[i].HoursViewed)
             /\ \A i \in DOMAIN file :
                    netflix_data[i].HoursViewed \in {NaNCell, file[i].HoursViewed}
        ELSE /\ Len(netflix_data) = Len(file)
             /\ \A i \in DOMAIN file :
                    IF file[i].HoursViewed = <<>>
                    THEN netflix_data[i].HoursViewed = NaN
                    ELSE /\ netflix_data[i].HoursViewed \in 0..HoursLimit
                         /\ Numeral(netflix_data[i].HoursViewed)
                              = WithoutCommas(file[i].HoursViewed)

C3_Witness ==
    /\ pc = "failed"
    /\ error = FloatError
    /\ \E i, j \in DOMAIN file :
           /\ "," \in Range(file[i].HoursViewed)
           /\ "x" \in Range(file[j].HoursViewed)

-----------------------------------------------------------------------------
(* C4 *)

\* the text of the cell names a day of the calendar of 2023
IsCalendarDate(c) ==
    /\ c.wf
    /\ \E m \in 1..12, d \in 1..31 :
           /\ c.m = m /\ c.d = d
           /\ ~(m = 2 /\ d > 28)
           /\ ~(m \in {4, 6, 9, 11} /\ d > 30)

\* the weekday of a day of 2023 by Zeller's congruence
ZellerDay(m, d) ==
    LET mm == IF m <= 2 THEN m + 12 ELSE m
        k  == IF m <= 2 THEN 22 ELSE 23
        h  == (d + ((13 * (mm + 1)) \div 5) + k + (k \div 4) + 5 + 100) % 7
    IN <<"Saturday", "Sunday", "Monday", "Tuesday", "Wednesday", "Thursday",
         "Friday">>[h + 1]

\* C4: a Release Date cell that does not parse raises no error; its row
\* stays in the table with Release Date, Release Month and Release Day
\* missing, is in no filtered set and in no group of a view grouped by month
\* or weekday.  Every row has a Release Month that is missing or in 1..12
\* and a Release Day that is missing or a weekday name, missing exactly when
\* Release Date is, and otherwise the month and weekday of Release Date.
C4_DateCoerced ==
    /\ error = FloatError =>
           \E i \in DOMAIN file :
               ~CanFloat(StripCommas(ReadCsv(file)[i].HoursViewed))
    /\ Preprocessed =>
        /\ Len(netflix_data) = Len(file)
        /\ \A i \in DOMAIN file :
               LET r == netflix_data[i]
               IN /\ r.ReleaseMonth \in {NaN} \cup 1..12
                  /\ r.ReleaseDay \in {NA} \cup Range(WeekDays)
                  /\ (r.ReleaseDate = NaT) = ~IsCalendarDate(file[i].ReleaseDate)
                  /\ (r.ReleaseMonth = NaN) = (r.ReleaseDate = NaT)
                  /\ (r.ReleaseDay = NA) = (r.ReleaseDate = NaT)
                  /\ r.ReleaseDate # NaT =>
                         /\ r.ReleaseDate.m = file[i].ReleaseDate.m
                         /\ r.ReleaseDate.d = file[i].ReleaseDate.d
                         /\ r.ReleaseMonth = r.ReleaseDate.m
                         /\ r.ReleaseDay
                              = ZellerDay(r.ReleaseDate.m, r.ReleaseDate.d)
    /\ Filtered =>
           \A k \in DOMAIN filtered_data : filtered_data[k].ReleaseDate # NaT
    /\ pc = "done" =>
        LET dated == {i \in DOMAIN netflix_data :
                          netflix_data[i].ReleaseDate # NaT}
            hours(S) == SumSeq([k \in 1..Len(netflix_data) |->
                                   IF k \in S THEN netflix_data[k].HoursViewed
                                   ELSE NaN])
        IN /\ NaN \notin DOMAIN monthly_viewership
           /\ NaN \notin DOMAIN monthly_viewership_by_type
           /\ DOMAIN weekday_releases = Range(WeekDays)
           /\ DOMAIN weekday_viewership = Range(WeekDays)
           /\ SumOver(weekday_releases, Range(WeekDays)) = Cardinality(dated)
           /\ SumOver(weekday_viewership, Range(WeekDays)) = hours(dated)
           /\ SumOver([m \in DOMAIN monthly_viewership_by_type |->
                          SumOver(monthly_viewership_by_type[m],
                                  DOMAIN monthly_viewership_by_type[m])],
                      DOMAIN monthly_viewership_by_type)
                = hours({i \in dated : netflix_data[i].ContentType # NA})

C4_Witness ==
    /\ pc = "done"
    /\ \E i, j \in DOMAIN file :
           /\ ~file[i].ReleaseDate.wf
           /\ netflix_data[i].ContentType = content_type
           /\ netflix_data[i].ReleaseDate = NaT
           /\ netflix_data[j].ReleaseDate # NaT

-----------------------------------------------------------------------------
(* C5 *)

\* C5: the file is read and preprocessed once, in the first run of the
\* session; a run started by a widget change does neither again.
C5_LoadedOnce == [][(Load \/ PreprocessData) => ~rerun]_vars

-----------------------------------------------------------------------------
(* C6 *)

\* C6: the monthly viewership sums, added up over all months, are the
\* total hours of the filtered set.
C6_MonthlyConservation ==
    pc = "done" =>
        SumOver(monthly_viewership, DOMAIN monthly_viewership) = total_hours

C6_Witness ==
    /\ pc = "done"
    /\ Cardinality(DOMAIN monthly_viewership) >= 2
    /\ \A m \in DOMAIN monthly_viewership :
           monthly_viewership[m] > 0 /\ monthly_viewership[m] < total_hours

-----------------------------------------------------------------------------
(* C7 *)

Min(a, b) == IF a < b THEN a ELSE b

\* C7: the top content has min(10, rows of the filtered set) rows, each a
\* row of the filtered set and none twice, in non-increasing order of Hours
\* Viewed (rows without hours last), and no row left out has more hours
\* than a row in it.
C7_TopContent ==
    pc = "done" =>
        /\ Len(top_content) = Min(TopN, Len(filtered_data))
        /\ \A k \in DOMAIN top_content :
               \E i \in DOMAIN filtered_data :
                   /\ filtered_data[i].idx = top_content[k].idx
                   /\ filtered_data[i].Title = top_content[k].Title
                   /\ filtered_data[i].HoursViewed = top_content[k].HoursViewed
        /\ \A k, l \in DOMAIN top_content :
               k # l => top_content[k].idx # top_content[l].idx
        /\ \A k \in 1..(Len(top_content) - 1) :
               \/ top_content[k + 1].HoursViewed = NaN
               \/ /\ top_content[k].HoursViewed # NaN
                  /\ top_content[k].HoursViewed >= top_content[k + 1].HoursViewed
        /\ \A i \in DOMAIN filtered_data :
               (/\ filtered_data[i].HoursViewed # NaN
                /\ \A k \in DOMAIN top_content :
                       top_content[k].idx # filtered_data[i].idx)
               => \A k \in DOMAIN top_content :
                      /\ top_content[k].HoursViewed # NaN
                      /\ filtered_data[i].HoursViewed
                           <= top_content[k].HoursViewed

C7_Witness ==
    /\ pc = "done"
    /\ Len(filtered_data) > TopN
    /\ Len(top_content) = TopN
    /\ top_content[1].HoursViewed > top_content[TopN].HoursViewed
    /\ filtered_data[1].HoursViewed < top_content[1].HoursViewed

-----------------------------------------------------------------------------
(* C8 *)

\* C8 as stated: the content distribution counts add up to the number of
\* rows of the table, rows without a content type included.
C8_CountsAllRows ==
    pc = "done" =>
        SumOver(content_distribution, DOMAIN content_distribution)
          = Len(netflix_data)

\* C8, amended: the content distribution counts add up to the number of
\* rows of the table that have a content type; that is every row exactly
\* when no content type is missing.
C8_CountsTypedRows ==
    pc = "done" =>
        /\ SumOver(content_distribution, DOMAIN content_distribution)
             = Cardinality({i \in DOMAIN netflix_data :
                                netflix_data[i].ContentType # NA})
        /\ NA \notin DOMAIN content_distribution
        /\ \A t \in DOMAIN content_distribution :
               content_distribution[t]
                 = Cardinality({i \in DOMAIN file : file[i].ContentType = t})

C8_Witness ==
    /\ pc = "done"
    /\ \E i, j \in DOMAIN netflix_data :
           /\ netflix_data[i].ContentType = NA
           /\ netflix_data[j].ContentType # NA
    /\ Len(filtered_data) >= 1

-----------------------------------------------------------------------------
(* C9 *)

\* C9: once lines 11-14 have run, the base table is the preprocessed file
\* whatever the filter selection is and whichever later block has run, and
\* the four views of the unfiltered table are those of the preprocessed
\* file.
C9_BaseTableKept ==
    /\ Preprocessed => netflix_data = Preprocess(ReadCsv(file))
    /\ pc = "done" =>
        LET base == Preprocess(ReadCsv(file))
        IN /\ weekday_releases
                = Reindex(ValueCounts(base, "ReleaseDay", NA), WeekDays)
           /\ weekday_viewership
                = Reindex(GroupBySum(base, "ReleaseDay", NA), WeekDays)
           /\ monthly_viewership_by_type = PivotTable(base)
           /\ content_distribution = ValueCounts(base, "ContentType", NA)

C9_Witness ==
    /\ pc = "done"
    /\ rerun
    /\ languages # {}
    /\ month_range # <<SliderMin, SliderMax>>
    /\ Len(filtered_data) >= 1
    /\ Len(filtered_data) < Len(netflix_data)

-----------------------------------------------------------------------------
(* C10 *)

\* C10: when the filtered set is not empty the summary is computed and the
\* most viewed content type is the selected content type.
C10_MostViewedIsSelected ==
    (Filtered /\ pc # "summary" /\ filtered_data # <<>>) =>
        /\ error = "none"
        /\ most_viewed_type = content_type

C10_Witness ==
    /\ pc = "done"
    /\ filtered_data # <<>>
    /\ \E i \in DOMAIN netflix_data :
           /\ netflix_data[i].ContentType \notin {NA, content_type}
           /\ netflix_data[i].HoursViewed > total_hours

====
